---------------------------- MODULE Spec2Model ----------------------------
(***************************************************************************)
(* A model of the chat client of ruleless/llm-prompts:                     *)
(*   - OpenAIClient (src/openai_chat_client.py): the conversation history, *)
(*     the system prompt, the REST/SSE stream decoder;                     *)
(*   - ZhipuAiChatClient (src/zhipuai_chat_client.py): the native-SDK      *)
(*     stream decoder;                                                     *)
(*   - stream_chat and normal_chat (src/openai_chat_client.py): one turn,  *)
(*     run to its end or interrupted;                                      *)
(*   - chat_completion and list_models of both clients: the request given  *)
(*     to the backend and what comes back to the caller;                   *)
(*   - PromptService (src/prompt_service.py) and TranslationService        *)
(*     (src/translation.py): template loading, rendering, turns;           *)
(*   - ServiceFactory (src/notebooks/setup.py): the choice of the adapter  *)
(*     and the services kept by name.                                      *)
(*                                                                         *)
(* Python objects are modelled with their identity: a message is a dict    *)
(* living in `heap`, and a list of messages is a sequence of references    *)
(* into it, so that list.copy() (a shallow copy) and an in-place update    *)
(* of a dict are what they are in Python.                                  *)
(***************************************************************************)
EXTENDS Integers, Sequences, FiniteSets, TLC

(***************************************************************************)
(* Bounds of the model.                                                    *)
(***************************************************************************)
\* the longest conversation history an operation may leave (add_message and
\* set_system_prompt add one message, a streaming turn up to two)
MaxHist == 4
\* the same, where a caller holds a copy of the history
MaxCopyHist == 3
\* the same, where the operations are streaming turns
MaxTurnHist == 3
\* the longest SSE line sequence / vendor event sequence of one turn
MaxLines == 2
\* the longest SSE line sequence / vendor event sequence given to a decoder
MaxStream == 4
\* the longest history, where chat-completion requests are made directly
MaxReqHist == 2
\* the most pieces of text a template is put together from
MaxPieces == 3
\* the longest history of the client of a service
MaxServiceHist == 3
\* the most accesses to the services of the factory
MaxAccesses == 3
\* the longest history, where the model list is asked for
MaxModelsHist == 2
\* the longest history, where turns are interrupted
MaxCancelHist == 3
\* the longest history, where the turns are of both kinds
MaxChatHist == 4

(***************************************************************************)
(* Values.                                                                 *)
(***************************************************************************)
\* Python's None, and "no such key / attribute", as strings of their own
NONE == "<None>"
ABSENT == "<absent>"

\* Python truthiness of an Optional[str]
Truthy(s) == s /= NONE /\ s /= ""

Message(role, content) == [role |-> role, content |-> content]

(***************************************************************************)
(* The client object: heap of message dicts, conversation_history (a list  *)
(* of references), system_prompt.                                          *)
(***************************************************************************)
VARIABLES
    kind,                  \* which adapter class the client is: "rest" | "zhipu"
    heap,                  \* the message dicts allocated so far
    conversation_history,  \* self.conversation_history: references into heap
    system_prompt,         \* self.system_prompt
    copy,                  \* the list last returned by get_history()
    copySeen,              \* what the caller read through it when it was returned
    last,                  \* the last operation: its name, arguments and outcome
    wire,                  \* SpecDecoder: the response a decoder is run over
    decoded,               \* SpecDecoder: the chunks the decoder yielded
    request,               \* the last chat-completion request given to the backend
    rendering,             \* SpecRender: a template, a mapping, and the text rendered
    service,               \* SpecService: the service object and how it was constructed
    env,                   \* SpecFactory: the credentials in the process environment
    factory                \* SpecFactory: the ServiceFactory and its last access

\* the variables outside the client, its caller and the decoders
outside == <<request, rendering, service, env, factory>>

vars == <<kind, heap, conversation_history, system_prompt, copy, copySeen, last,
          wire, decoded, outside>>

\* the client's fields as one value
Self == [heap |-> heap, hist |-> conversation_history, sp |-> system_prompt]

\* the messages a list of references shows, read through the heap h
View(h, refs) == [i \in 1..Len(refs) |-> h[refs[i]]]

\* the history as a caller reads it now
History == View(heap, conversation_history)
\* a previously returned copy as the caller reads it now
CopyView == View(heap, copy)


(***************************************************************************)
(* OpenAIClient: construction and the history operations.  Each operator   *)
(* takes the client's fields and returns them as the method leaves them.   *)
(***************************************************************************)
\* __init__: the history starts empty, and a truthy system prompt is appended
\* as the first message
Construct(sp) ==
    IF Truthy(sp)
    THEN [heap |-> <<Message("system", sp)>>, hist |-> <<1>>, sp |-> sp]
    ELSE [heap |-> <<>>, hist |-> <<>>, sp |-> sp]

\* add_message: append a new dict, whatever the role
add_message(st, role, content) ==
    [st EXCEPT !.heap = Append(@, Message(role, content)),
               !.hist = Append(@, Len(st.heap) + 1)]

\* set_system_prompt writing the system message over whatever message is at
\* index 0
set_system_prompt_over_first(st, sp) ==
    IF st.hist /= <<>>
    THEN [st EXCEPT !.sp = sp, !.heap[st.hist[1]] = Message("system", sp)]
    ELSE [st EXCEPT !.sp = sp,
                    !.heap = Append(@, Message("system", sp)),
                    !.hist = <<Len(st.heap) + 1>> \o @]

\* set_system_prompt: update the dict at index 0 in place when it is a system
\* message, insert a new dict at index 0 otherwise
set_system_prompt(st, sp) ==
    IF st.hist /= <<>> /\ st.heap[st.hist[1]].role = "system"
    THEN [st EXCEPT !.sp = sp, !.heap[st.hist[1]].content = sp]
    ELSE [st EXCEPT !.sp = sp,
                    !.heap = Append(@, Message("system", sp)),
                    !.hist = <<Len(st.heap) + 1>> \o @]

\* get_system_prompt
get_system_prompt(st) == st.sp

\* clear_history: a new list, holding a new system dict built from the
\* system_prompt field when that is asked for and the field is truthy
clear_history(st, keep_system_prompt) ==
    IF keep_system_prompt /\ Truthy(st.sp)
    THEN [st EXCEPT !.heap = Append(@, Message("system", st.sp)),
                    !.hist = <<Len(st.heap) + 1>>]
    ELSE [st EXCEPT !.hist = <<>>]

\* get_history: list.copy(), a new list holding the same dicts
get_history(st) == st.hist

(***************************************************************************)
(* Dicts no list refers to any more are dropped and the references         *)
(* renumbered (the history's first, then the copy's own), so that a state  *)
(* is the object graph and not the allocation order.                       *)
(***************************************************************************)
InSeq(x, s) == \E i \in 1..Len(s) : s[i] = x

LiveRefs(hist, cp) ==
    hist \o SelectSeq(cp, LAMBDA r : ~InSeq(r, hist))

PosIn(s, x) == CHOOSE i \in 1..Len(s) : s[i] = x

Renumber(live, refs) == [i \in 1..Len(refs) |-> PosIn(live, refs[i])]

\* the record every action writes into `last`
NoOp ==
    [op |-> "init", role |-> "", content |-> "", keep |-> FALSE,
     pre |-> <<>>, preSp |-> NONE, outcome |-> "returned",
     status |-> "", end |-> "", delivered |-> <<>>, broken |-> FALSE,
     emitted |-> <<>>, genRaised |-> FALSE, where |-> "",
     text |-> <<>>, models |-> <<>>, calls |-> <<>>]

\* the client's fields after an operation, the caller's copy, and the record
\* of the operation
Store(st, cp, seen, rec) ==
    LET live == LiveRefs(st.hist, cp) IN
    /\ heap' = View(st.heap, live)
    /\ conversation_history' = Renumber(live, st.hist)
    /\ system_prompt' = st.sp
    /\ copy' = Renumber(live, cp)
    /\ copySeen' = seen
    /\ last' = rec
    /\ UNCHANGED <<kind, wire, decoded>>

\* the same, for an operation on the client alone
Commit(st, cp, seen, rec) ==
    /\ Store(st, cp, seen, rec)
    /\ UNCHANGED outside

Called(op) == [NoOp EXCEPT !.op = op, !.pre = History, !.preSp = system_prompt]

(***************************************************************************)
(* Chunks: the dicts a stream decoder yields.  A JSON value is a record    *)
(* [t, empty, hasChoices, choices]; a choice is [hasDelta, role, content,  *)
(* finish_reason], with ABSENT for a key that is not there.                *)
(***************************************************************************)
Choice(hasDelta, role, content, finish_reason) ==
    [hasDelta |-> hasDelta, role |-> role, content |-> content,
     finish_reason |-> finish_reason]

JsonValue(t, empty, hasChoices, choices) ==
    [t |-> t, empty |-> empty, hasChoices |-> hasChoices, choices |-> choices]

\* Python's None, also what json.loads makes of `null`
PyNone == JsonValue("None", TRUE, FALSE, <<>>)

\* a dict with a "choices" list
ChunkOf(choices) == JsonValue("object", FALSE, TRUE, choices)

\* a chunk whose one choice has a delta with this content
Delta(content) == ChunkOf(<<Choice(TRUE, ABSENT, content, ABSENT)>>)

\* Python truthiness of a parsed JSON value
PyTruthy(v) == v.t = "number" \/ (v.t = "object" /\ ~v.empty)

(***************************************************************************)
(* The REST/SSE wire.  A line is the sequence of the pieces of text it is  *)
(* made of; a piece is the `data: ` marker, white space, the `[DONE]`      *)
(* marker, or a payload text.                                              *)
(***************************************************************************)
STREAM_PREFIX == "data: "
STREAM_END_MARKER == "[DONE]"
Space == " "

J_EmptyObject == "{}"
J_Null == "null"
J_Number == "5"
J_NoChoices == "{\"id\":\"x\"}"
J_EmptyChoices == "{\"choices\":[]}"
J_NoDelta == "{\"choices\":[{}]}"
J_NoContent == "{\"choices\":[{\"delta\":{}}]}"
J_EmptyContent == "{\"choices\":[{\"delta\":{\"content\":\"\"}}]}"
J_NullContent == "{\"choices\":[{\"delta\":{\"content\":null}}]}"
J_A == "{\"choices\":[{\"delta\":{\"content\":\"a\"}}]}"
J_B == "{\"choices\":[{\"delta\":{\"content\":\"b\"}}]}"
J_Bad == "{bad json"

\* json.loads on one piece of text: the value of each JSON text above, and a
\* JSONDecodeError (FALSE in `ok`) for text that is not JSON
JsonLoadsText(text) ==
    CASE text = J_EmptyObject -> [ok |-> TRUE, v |-> JsonValue("object", TRUE, FALSE, <<>>)]
      [] text = J_Null -> [ok |-> TRUE, v |-> PyNone]
      [] text = J_Number -> [ok |-> TRUE, v |-> JsonValue("number", FALSE, FALSE, <<>>)]
      [] text = J_NoChoices -> [ok |-> TRUE, v |-> JsonValue("object", FALSE, FALSE, <<>>)]
      [] text = J_EmptyChoices -> [ok |-> TRUE, v |-> ChunkOf(<<>>)]
      [] text = J_NoDelta ->
            [ok |-> TRUE, v |-> ChunkOf(<<Choice(FALSE, ABSENT, ABSENT, ABSENT)>>)]
      [] text = J_NoContent -> [ok |-> TRUE, v |-> Delta(ABSENT)]
      [] text = J_EmptyContent -> [ok |-> TRUE, v |-> Delta("")]
      [] text = J_NullContent -> [ok |-> TRUE, v |-> Delta(NONE)]
      [] text = J_A -> [ok |-> TRUE, v |-> Delta("a")]
      [] text = J_B -> [ok |-> TRUE, v |-> Delta("b")]
      [] OTHER -> [ok |-> FALSE, v |-> PyNone]

\* str.strip(): leading and trailing white space removed
RECURSIVE LStrip(_)
LStrip(s) == IF s /= <<>> /\ Head(s) = Space THEN LStrip(Tail(s)) ELSE s

RECURSIVE RStrip(_)
RStrip(s) ==
    IF s /= <<>> /\ s[Len(s)] = Space THEN RStrip(SubSeq(s, 1, Len(s) - 1)) ELSE s

Strip(s) == RStrip(LStrip(s))

\* json.loads: white space around the one JSON text is allowed
JsonLoads(data_str) ==
    LET t == Strip(data_str) IN
    IF Len(t) = 1 THEN JsonLoadsText(t[1]) ELSE [ok |-> FALSE, v |-> PyNone]

\* str.startswith
StartsWith(line, prefix) == line /= <<>> /\ Head(line) = prefix

\* _is_stream_end comparing with the wrong marker text
is_stream_end_wrong_marker(data_str) == Strip(data_str) = <<"DONE">>

\* _is_stream_end
is_stream_end(data_str) == Strip(data_str) = <<STREAM_END_MARKER>>

\* _parse_stream_data: the parsed value, None on a JSONDecodeError
parse_stream_data(data_str) ==
    LET r == JsonLoads(data_str) IN IF r.ok THEN r.v ELSE PyNone

\* _handle_stream_response, run to its end over the lines the response
\* delivers, where `end` says how iter_lines() stops after them: "eof", or
\* "error" (it raises).  The chunks yielded, and whether the generator raises
\* after them.
RECURSIVE handle_stream_response(_, _)
handle_stream_response(lines, end) ==
    IF lines = <<>>
    THEN [chunks |-> <<>>, raised |-> end = "error"]
    ELSE LET line == Head(lines)
             rest == handle_stream_response(Tail(lines), end)
         IN  IF line = <<>> THEN rest
             ELSE IF ~StartsWith(line, STREAM_PREFIX) THEN rest
             ELSE LET data_str == Tail(line) IN
                  IF is_stream_end(data_str)
                  THEN [chunks |-> <<>>, raised |-> FALSE]
                  ELSE LET data == parse_stream_data(data_str) IN
                       IF PyTruthy(data)
                       THEN [rest EXCEPT !.chunks = <<data>> \o @]
                       ELSE rest

(***************************************************************************)
(* The native-SDK wire.  A vendor event is [valid, hasDelta, content,      *)
(* role, finish_reason]: `valid` says it is an object with a non-empty     *)
(* choices list, the rest describes its first choice (ABSENT: no such      *)
(* attribute).                                                             *)
(***************************************************************************)
Event(valid, hasDelta, content, role, finish_reason) ==
    [valid |-> valid, hasDelta |-> hasDelta, content |-> content,
     role |-> role, finish_reason |-> finish_reason]

\* getattr(obj, name, default)
GetAttr(v, default) == IF v = ABSENT THEN default ELSE v

\* the dict _handle_zhipu_stream_response builds for an event
ZhipuData(role, content, finish_reason) ==
    ChunkOf(<<Choice(TRUE, role, content, finish_reason)>>)

\* _handle_zhipu_stream_response skipping every event without content and
\* role, a finish reason or not
RECURSIVE handle_zhipu_stream_response_drops_finish_only(_, _)
handle_zhipu_stream_response_drops_finish_only(events, end) ==
    IF events = <<>>
    THEN [chunks |-> <<>>, raised |-> FALSE]
    ELSE LET chunk == Head(events)
             rest == handle_zhipu_stream_response_drops_finish_only(Tail(events), end)
             content == GetAttr(chunk.content, "")
             role == GetAttr(chunk.role, "")
             finish_reason == GetAttr(chunk.finish_reason, NONE)
         IN  IF ~chunk.valid THEN rest
             ELSE IF ~chunk.hasDelta THEN rest
             ELSE IF ~Truthy(content) /\ ~Truthy(role) THEN rest
             ELSE [rest EXCEPT
                     !.chunks = <<ZhipuData(role, content, finish_reason)>> \o @]

\* _handle_zhipu_stream_response over the events the vendor stream delivers,
\* where `end` says how the vendor stream stops after them.  An exception of
\* the vendor stream is caught and logged, and the generator returns.
RECURSIVE handle_zhipu_stream_response(_, _)
handle_zhipu_stream_response(events, end) ==
    IF events = <<>>
    THEN [chunks |-> <<>>, raised |-> FALSE]
    ELSE LET chunk == Head(events)
             rest == handle_zhipu_stream_response(Tail(events), end)
             content == GetAttr(chunk.content, "")
             role == GetAttr(chunk.role, "")
             finish_reason == GetAttr(chunk.finish_reason, NONE)
         IN  IF ~chunk.valid THEN rest
             ELSE IF ~chunk.hasDelta THEN rest
             ELSE IF ~Truthy(content) /\ ~Truthy(role) /\ ~Truthy(finish_reason)
                  THEN rest
             ELSE [rest EXCEPT
                     !.chunks = <<ZhipuData(role, content, finish_reason)>> \o @]

(***************************************************************************)
(* Templates.  A text is the sequence of its characters; the mapping of a  *)
(* TemplateConfig is the sequence of its (key, value) items in the order   *)
(* dict.items() visits them, or None.                                      *)
(***************************************************************************)
\* the placeholder f"{{{{{key}}}}}" of a key
Placeholder(key) == <<"{", "{">> \o key \o <<"}", "}">>

\* text[i:].startswith(old)
OccursAt(text, i, old) ==
    /\ i + Len(old) - 1 <= Len(text)
    /\ SubSeq(text, i, i + Len(old) - 1) = old

\* str.replace changing the first occurrence only
RECURSIVE ReplaceFirstOnly(_, _, _)
ReplaceFirstOnly(text, old, new) ==
    IF text = <<>> THEN <<>>
    ELSE IF OccursAt(text, 1, old)
         THEN new \o SubSeq(text, Len(old) + 1, Len(text))
         ELSE <<Head(text)>> \o ReplaceFirstOnly(Tail(text), old, new)

\* str.replace(old, new) for a non-empty old: every occurrence, found from
\* the left and not overlapping, is replaced; the text put in is not
\* searched again
RECURSIVE Replace(_, _, _)
Replace(text, old, new) ==
    IF text = <<>> THEN <<>>
    ELSE IF OccursAt(text, 1, old)
         THEN new \o Replace(SubSeq(text, Len(old) + 1, Len(text)), old, new)
         ELSE <<Head(text)>> \o Replace(Tail(text), old, new)

Item(key, value) == [key |-> key, value |-> value]

\* template_vars: None, or a dict
NoneVars == [none |-> TRUE, items |-> <<>>]
Dict(items) == [none |-> FALSE, items |-> items]

\* the loop of _replace_template_variables over the items of the dict
RECURSIVE ReplaceItems(_, _)
ReplaceItems(result, items) ==
    IF items = <<>> THEN result
    ELSE ReplaceItems(Replace(result, Placeholder(Head(items).key),
                              Head(items).value),
                      Tail(items))

\* PromptService._replace_template_variables
replace_template_variables(template, template_vars) ==
    IF template_vars.none THEN template
    ELSE ReplaceItems(template, template_vars.items)

\* str(): the string of a text
RECURSIVE Str(_)
Str(text) == IF text = <<>> THEN "" ELSE Head(text) \o Str(Tail(text))

\* Optional[str]: None, or a text
NoText == [none |-> TRUE, text |-> <<>>]
Text(text) == [none |-> FALSE, text |-> text]

\* the Optional[str] as the client keeps it
OptStr(t) == IF t.none THEN NONE ELSE Str(t.text)

\* a template path and what is at it: the path is None (declared = FALSE), or
\* it names a file ("file", with its text), nothing ("missing"), or something
\* that cannot be read ("unreadable")
Path(declared, at, text) == [declared |-> declared, at |-> at, text |-> text]
NoPath == Path(FALSE, "missing", <<>>)

\* TemplateConfig
TemplateConfig(template_path, template_vars) ==
    [template_path |-> template_path,
     template_vars |-> IF template_vars.none THEN Dict(<<>>) ELSE template_vars]

\* PromptService._load_template_file: what it returns, or the exception it
\* raises (after logging it)
load_template_file(template_config) ==
    LET path == template_config.template_path IN
    IF ~path.declared
    THEN [outcome |-> "returned", value |-> NoText]
    ELSE IF path.at = "missing"
    THEN [outcome |-> "FileNotFoundError", value |-> NoText]
    ELSE IF path.at = "unreadable"
    THEN [outcome |-> "OSError", value |-> NoText]
    ELSE [outcome |-> "returned",
          value |-> Text(replace_template_variables(
                             Strip(path.text), template_config.template_vars))]

\* TranslationService._load_system_prompt: what it returns, or SystemExit
\* from sys.exit(1)
load_system_prompt(from_lang, to_lang, path) ==
    IF path.at = "file"
    THEN [outcome |-> "returned",
          value |-> Text(Replace(Replace(Strip(path.text),
                                         <<"{", "{", "f", "r", "o", "m", "}", "}">>,
                                         from_lang),
                                 <<"{", "{", "t", "o", "}", "}">>, to_lang))]
    ELSE [outcome |-> "SystemExit", value |-> NoText]

\* the key under which stream_chat puts the text of the turn
USER_INPUT == <<"u", "s", "e", "r", "_", "i", "n", "p", "u", "t">>

\* dict[key] = value: the value of an existing key is replaced where the key
\* is, a new key goes to the end
SetItem(items, key, value) ==
    IF \E i \in 1..Len(items) : items[i].key = key
    THEN [i \in 1..Len(items) |->
            IF items[i].key = key THEN Item(key, value) ELSE items[i]]
    ELSE Append(items, Item(key, value))

\* PromptService.stream_chat: the text it sends for the text it is given
processed_text(user_template, template_vars, text) ==
    IF ~user_template.none /\ user_template.text /= <<>>
    THEN replace_template_variables(
             user_template.text,
             Dict(SetItem(template_vars.items, USER_INPUT, text)))
    ELSE text

\* PromptService.stream_chat writing user_input into the configured
\* variables instead of a copy of them
service_stream_chat_sets_configured(svc, text) ==
    [processed |-> processed_text(svc.user_template, svc.user_template_vars,
                                  text),
     user_template |-> svc.user_template,
     user_template_vars |->
        IF ~svc.user_template.none /\ svc.user_template.text /= <<>>
        THEN Dict(SetItem(svc.user_template_vars.items, USER_INPUT, text))
        ELSE svc.user_template_vars]

\* PromptService.stream_chat(text) on the service fields svc: the text it
\* gives to stream_chat, and the fields _user_template and
\* _user_template_config.template_vars as it leaves them (user_input is set
\* in a copy of the variables)
service_stream_chat(svc, text) ==
    [processed |-> processed_text(svc.user_template, svc.user_template_vars,
                                  text),
     user_template |-> svc.user_template,
     user_template_vars |-> svc.user_template_vars]

\* what a service was constructed with
NotConfigured == [user_template |-> NoText, user_template_vars |-> Dict(<<>>)]

\* no service object
NoService ==
    [cls |-> "", exists |-> FALSE, outcome |-> "", clientMade |-> FALSE,
     system |-> NoPath, user |-> NoPath, user_template_vars |-> Dict(<<>>),
     user_template |-> NoText, configured |-> NotConfigured]

(***************************************************************************)
(* The service factory of notebooks/setup.py.  The environment gives each  *)
(* credential a value or none (ABSENT); an adapter is the client           *)
(* constructed: its class, api_key and base_url.                           *)
(***************************************************************************)
Env(zhipuai, deepseek) ==
    [ZHIPUAI_API_KEY |-> zhipuai, DEEPSEEK_API_KEY |-> deepseek]

NoEnv == Env(ABSENT, ABSENT)

\* os.getenv(name): the value, None when the variable is not set
GetEnv(e, name) == IF e[name] = ABSENT THEN NONE ELSE e[name]

NoAdapter == [cls |-> "", api_key |-> NONE, base_url |-> NONE, model |-> ""]

DEEPSEEK_BASE_URL == "https://api.deepseek.com"

\* the names of the services (two of the ten)
ServiceNames == {"pure_chat", "zh_to_en"}

\* ServiceFactory.__init__: no service yet under any name
NoServices == [n \in ServiceNames |-> NONE]

\* PromptService(client=client, model=model, **config): __init__ requires
\* api_key, which the call does not give, so the call raises TypeError
\* before anything is constructed
prompt_service_from_client(client, model, config) ==
    [outcome |-> "TypeError", value |-> NONE]

\* _ensure_service, the choice of the adapter: with a ZHIPUAI key the
\* native-SDK client is constructed with it; with a DEEPSEEK key alone the
\* construction of the REST/SSE client reads the local api_key, which this
\* branch never binds (UnboundLocalError); with neither, sys.exit(1)
choose_adapter(e) ==
    IF Truthy(GetEnv(e, "ZHIPUAI_API_KEY"))
    THEN [outcome |-> "returned",
          client |-> [cls |-> "ZhipuAiChatClient",
                      api_key |-> GetEnv(e, "ZHIPUAI_API_KEY"),
                      base_url |-> NONE, model |-> "glm-4.5"]]
    ELSE IF Truthy(GetEnv(e, "DEEPSEEK_API_KEY"))
    THEN [outcome |-> "UnboundLocalError", client |-> NoAdapter]
    ELSE [outcome |-> "SystemExit", client |-> NoAdapter]

\* _ensure_service(service_name): the services afterwards, what the call
\* returns or raises, and the adapter it constructed
ensure_service(services, service_name, e) ==
    IF services[service_name] /= NONE
    THEN [services |-> services, outcome |-> "returned",
          value |-> services[service_name], client |-> NoAdapter]
    ELSE LET chosen == choose_adapter(e)
             made == prompt_service_from_client(chosen.client, chosen.client.model,
                                                service_name)
         IN  IF chosen.outcome /= "returned"
             THEN [services |-> services, outcome |-> chosen.outcome,
                   value |-> NONE, client |-> NoAdapter]
             ELSE IF made.outcome /= "returned"
             THEN [services |-> services, outcome |-> made.outcome,
                   value |-> NONE, client |-> chosen.client]
             ELSE [services |-> [services EXCEPT ![service_name] = made.value],
                   outcome |-> "returned", value |-> made.value,
                   client |-> chosen.client]

NoAccess ==
    [name |-> "", env |-> NoEnv, outcome |-> "", value |-> NONE,
     client |-> NoAdapter, before |-> NoServices]

\* no factory was constructed
NoFactory ==
    [startup |-> NoEnv, services |-> NoServices, accesses |-> 0,
     access |-> NoAccess]

\* nothing is being rendered
NoRendering ==
    [template |-> <<>>, vars |-> NoneVars, passes |-> 0, previous |-> <<>>,
     result |-> <<>>]

(***************************************************************************)
(* The chat-completion request.  A request is the mapping handed to the    *)
(* backend (the JSON body of the POST, the keyword arguments of the SDK    *)
(* call): a parameter that is not sent is a key that is not there.         *)
(***************************************************************************)
DEFAULT_TEMPERATURE == "0.7"
DEFAULT_MAX_TOKENS == 1000
\* the default of max_tokens in ZhipuAiChatClient.chat_completion
ZHIPU_DEFAULT_MAX_TOKENS == -1

\* no request was made yet
NoRequest == [made |-> FALSE]

\* OpenAIClient.chat_completion: the payload
openai_payload(messages, model, temperature, max_tokens, stream) ==
    [model |-> model, messages |-> messages, temperature |-> temperature,
     max_tokens |-> max_tokens, stream |-> stream]

\* ZhipuAiChatClient.chat_completion: the kwargs
zhipu_kwargs(messages, model, temperature, max_tokens, stream) ==
    IF max_tokens > 0
    THEN [model |-> model, messages |-> messages, temperature |-> temperature,
          stream |-> stream, max_tokens |-> max_tokens]
    ELSE [model |-> model, messages |-> messages, temperature |-> temperature,
          stream |-> stream]

\* the request chat_completion of the adapter k makes
request_of(k, messages, model, temperature, max_tokens, stream) ==
    IF k = "rest"
    THEN openai_payload(messages, model, temperature, max_tokens, stream)
    ELSE zhipu_kwargs(messages, model, temperature, max_tokens, stream)

(***************************************************************************)
(* list_models.  The backend's answer is [status, body]: status "fail" is  *)
(* a transport error or a non-2xx status; the body is the parsed JSON,     *)
(* [t, hasData, data]: a dict with or without a "data" key, or a list.     *)
(***************************************************************************)
ModelsBody(t, hasData, data) == [t |-> t, hasData |-> hasData, data |-> data]

ModelsResponse(status, body) == [status |-> status, body |-> body]

NoBody == ModelsBody("None", FALSE, <<>>)

\* Python truthiness of a body: an empty dict or list is falsy
BodyTruthy(body) ==
    \/ body.t = "dict" /\ (body.hasData \/ body.data /= <<>>)
    \/ body.t = "list" /\ body.data /= <<>>

\* OpenAIClient.list_models letting the RequestException of a failed request
\* through
openai_list_models_raises_on_failure(resp) ==
    IF resp.status = "fail"
    THEN [outcome |-> "raised", value |-> <<>>]
    ELSE IF resp.body.t /= "dict"
    THEN [outcome |-> "raised", value |-> <<>>]
    ELSE [outcome |-> "returned",
          value |-> IF resp.body.hasData THEN resp.body.data ELSE <<>>]

\* OpenAIClient.list_models: [] for a RequestException, data.get("data", [])
\* otherwise (AttributeError when the body is no dict)
openai_list_models(resp) ==
    IF resp.status = "fail"
    THEN [outcome |-> "returned", value |-> <<>>]
    ELSE IF resp.body.t /= "dict"
    THEN [outcome |-> "raised", value |-> <<>>]
    ELSE [outcome |-> "returned",
          value |-> IF resp.body.hasData THEN resp.body.data ELSE <<>>]

\* ZhipuAiChatClient.list_models: [] for any exception, response["data"]
\* when the response is truthy and has the key, [] otherwise
zhipu_list_models(resp) ==
    IF resp.status = "fail"
    THEN [outcome |-> "returned", value |-> <<>>]
    ELSE IF BodyTruthy(resp.body) /\ resp.body.t = "dict" /\ resp.body.hasData
    THEN [outcome |-> "returned", value |-> resp.body.data]
    ELSE [outcome |-> "returned", value |-> <<>>]

list_models(k, resp) ==
    IF k = "rest" THEN openai_list_models(resp) ELSE zhipu_list_models(resp)

(***************************************************************************)
(* chat_completion(stream=True).  A response is what the backend does with *)
(* the request: [status, lines, events, end]; status "fail" is a transport *)
(* error or a non-2xx status.  The result is None (none = TRUE) when the   *)
(* request fails, and the decoder's generator otherwise.                   *)
(***************************************************************************)
NoStream == [none |-> TRUE, chunks |-> <<>>, raised |-> FALSE]

Stream(g) == [none |-> FALSE, chunks |-> g.chunks, raised |-> g.raised]

\* OpenAIClient.chat_completion answering a failed request with an empty
\* generator instead of None
openai_chat_completion_empty_on_failure(resp) ==
    IF resp.status = "fail"
    THEN Stream([chunks |-> <<>>, raised |-> FALSE])
    ELSE Stream(handle_stream_response(resp.lines, resp.end))

\* OpenAIClient.chat_completion
openai_chat_completion(resp) ==
    IF resp.status = "fail"
    THEN NoStream
    ELSE Stream(handle_stream_response(resp.lines, resp.end))

\* ZhipuAiChatClient.chat_completion
zhipu_chat_completion(resp) ==
    IF resp.status = "fail"
    THEN NoStream
    ELSE Stream(handle_zhipu_stream_response(resp.events, resp.end))

chat_completion(k, resp) ==
    IF k = "rest" THEN openai_chat_completion(resp) ELSE zhipu_chat_completion(resp)

(***************************************************************************)
(* stream_chat: one streaming turn.                                        *)
(***************************************************************************)
\* the content the loop body reads from a chunk: delta.get("content", "")
\* of chunk["choices"][0].get("delta", {})
ChunkContent(chunk) ==
    LET choice == chunk.choices[1] IN
    IF ~choice.hasDelta THEN "" ELSE GetAttr(choice.content, "")

\* the loop of stream_chat over the chunks the generator has to yield: the
\* text accumulated, whether the loop body raises (a chunk that is no dict:
\* TypeError; an empty "choices" list: IndexError), and how many chunks the
\* loop took from the generator: all of them, or those up to the one its
\* body raised on, where the generator is abandoned
RECURSIVE Accumulate(_, _)
Accumulate(chunks, full_response) ==
    IF chunks = <<>>
    THEN [full_response |-> full_response, raised |-> FALSE, taken |-> 0]
    ELSE LET chunk == Head(chunks)
             \* the loop took this chunk before what r tells
             Took(r) == [r EXCEPT !.taken = @ + 1]
         IN
         IF chunk.t /= "object"
         THEN [full_response |-> full_response, raised |-> TRUE, taken |-> 1]
         ELSE IF ~chunk.hasChoices
         THEN Took(Accumulate(Tail(chunks), full_response))
         ELSE IF chunk.choices = <<>>
         THEN [full_response |-> full_response, raised |-> TRUE, taken |-> 1]
         ELSE IF Truthy(ChunkContent(chunk))
         THEN Took(Accumulate(Tail(chunks),
                              full_response \o ChunkContent(chunk)))
         ELSE Took(Accumulate(Tail(chunks), full_response))

\* the generator chat_completion returned, as the loop of stream_chat drives
\* it: the chunks it yielded, and whether it raised; a generator the loop
\* abandons has yielded the chunks up to the one the loop body raised on and
\* is not resumed, so that it reads no further and does not raise
Driven(stream) ==
    LET acc == Accumulate(stream.chunks, "") IN
    [emitted |-> SubSeq(stream.chunks, 1, acc.taken),
     genRaised |-> stream.raised /\ ~acc.raised]

\* the request of a turn: chat_completion(messages=client.get_history(),
\* model=model, stream=stream) with the adapter's defaults, for the client
\* fields st
turn_request(st, k, stream) ==
    request_of(k, View(st.heap, get_history(st)), "m", DEFAULT_TEMPERATURE,
               IF k = "rest" THEN DEFAULT_MAX_TOKENS
               ELSE ZHIPU_DEFAULT_MAX_TOKENS, stream)

\* stream_chat appending the assistant message without looking at
\* full_response
stream_chat_always_appends(st, k, user_input, resp) ==
    LET st1 == add_message(st, "user", user_input)
        stream == chat_completion(k, resp)
        acc == Accumulate(stream.chunks, "")
        calls == <<turn_request(st1, k, TRUE)>>
    IN  IF stream.none
        THEN [st |-> st1, outcome |-> "raised", calls |-> calls]
        ELSE IF acc.raised \/ stream.raised
        THEN [st |-> st1, outcome |-> "raised", calls |-> calls]
        ELSE [st |-> add_message(st1, "assistant", acc.full_response),
              outcome |-> "returned", calls |-> calls]

\* stream_chat making the request before it appends the user message
stream_chat_requests_first(st, k, user_input, resp) ==
    LET st1 == add_message(st, "user", user_input)
        stream == chat_completion(k, resp)
        acc == Accumulate(stream.chunks, "")
        calls == <<turn_request(st, k, TRUE)>>
    IN  IF stream.none
        THEN [st |-> st1, outcome |-> "raised", calls |-> calls]
        ELSE IF acc.raised \/ stream.raised
        THEN [st |-> st1, outcome |-> "raised", calls |-> calls]
        ELSE IF Truthy(acc.full_response)
        THEN [st |-> add_message(st1, "assistant", acc.full_response),
              outcome |-> "returned", calls |-> calls]
        ELSE [st |-> st1, outcome |-> "returned", calls |-> calls]

\* stream_chat(client, user_input, model) against a backend that answers
\* with resp: the client's fields afterwards, whether the call raised, and
\* the requests chat_completion made of the adapter
stream_chat(st, k, user_input, resp) ==
    LET st1 == add_message(st, "user", user_input)
        stream == chat_completion(k, resp)
        acc == Accumulate(stream.chunks, "")
        calls == <<turn_request(st1, k, TRUE)>>
    IN  IF stream.none
        THEN [st |-> st1, outcome |-> "raised",      \* for chunk in None
              calls |-> calls]
        ELSE IF acc.raised \/ stream.raised
        THEN [st |-> st1, outcome |-> "raised", calls |-> calls]
        ELSE IF Truthy(acc.full_response)
        THEN [st |-> add_message(st1, "assistant", acc.full_response),
              outcome |-> "returned", calls |-> calls]
        ELSE [st |-> st1, outcome |-> "returned", calls |-> calls]

(***************************************************************************)
(* normal_chat: one turn without streaming.  The backend's answer is       *)
(* [status, shape, content]: an answer whose first choice holds a message  *)
(* with the content; no "choices" at all (for the native SDK: a falsy      *)
(* response, converted to {}); or an empty "choices" list.                 *)
(***************************************************************************)
NormalResponse(status, shape, content) ==
    [status |-> status, shape |-> shape, content |-> content]

\* chat_completion(stream=False): None, or the response dict as
\* [hasChoices, choices]
NoAnswer == [none |-> TRUE, hasChoices |-> FALSE, choices |-> <<>>]

Answer(hasChoices, choices) ==
    [none |-> FALSE, hasChoices |-> hasChoices, choices |-> choices]

\* OpenAIClient.chat_completion: response.json()
openai_chat_completion_body(resp) ==
    IF resp.status = "fail" THEN NoAnswer
    ELSE IF resp.shape = "no_choices" THEN Answer(FALSE, <<>>)
    ELSE IF resp.shape = "empty_choices" THEN Answer(TRUE, <<>>)
    ELSE Answer(TRUE, <<resp.content>>)

\* ZhipuAiChatClient.chat_completion: _convert_zhipu_response(response), and
\* None when that raises (response.choices[0] of an empty list)
zhipu_chat_completion_body(resp) ==
    IF resp.status = "fail" THEN NoAnswer
    ELSE IF resp.shape = "no_choices" THEN Answer(FALSE, <<>>)
    ELSE IF resp.shape = "empty_choices" THEN NoAnswer
    ELSE Answer(TRUE, <<resp.content>>)

chat_completion_body(k, resp) ==
    IF k = "rest" THEN openai_chat_completion_body(resp)
    ELSE zhipu_chat_completion_body(resp)

\* normal_chat(client, user_input, model)
normal_chat(st, k, user_input, resp) ==
    LET st1 == add_message(st, "user", user_input)
        response == chat_completion_body(k, resp)
        calls == <<turn_request(st1, k, FALSE)>>
    IN  IF response.none \/ ~response.hasChoices
        THEN [st |-> st1, outcome |-> "returned", calls |-> calls]
        ELSE IF response.choices = <<>>
        THEN [st |-> st1, outcome |-> "raised", calls |-> calls]
        ELSE [st |-> add_message(st1, "assistant", response.choices[1]),
              outcome |-> "returned", calls |-> calls]

\* a turn can be interrupted at the point `where` of the stream with `at`
\* chunks taken.  "read": the generator has yielded `at` chunks, the loop
\* body raised on none of them, and the loop has resumed it for the next
\* one.  "body": the loop body is at work on chunk `at`, having raised on
\* none before it.  "after_loop": the loop has taken every chunk and ended
\* without an exception.  "after_append": the same, and add_message has
\* appended the assistant message, which it does for a non-empty
\* full_response
Running(k, resp, at, where) ==
    LET stream == chat_completion(k, resp)
        acc == Accumulate(stream.chunks, "")
    IN  /\ ~stream.none
        /\ at <= Len(stream.chunks)
        /\ where = "read" =>
              ~Accumulate(SubSeq(stream.chunks, 1, at), "").raised
        /\ where = "body" =>
              /\ at >= 1
              /\ ~Accumulate(SubSeq(stream.chunks, 1, at - 1), "").raised
        /\ where \in {"after_loop", "after_append"} =>
              /\ at = Len(stream.chunks)
              /\ ~acc.raised
              /\ ~stream.raised
        /\ where = "after_append" => Truthy(acc.full_response)

\* stream_chat interrupted (KeyboardInterrupt) before there is a stream.
\* "start": before add_message has appended the user message.  "setup":
\* after that and before chat_completion calls the backend (the two prints,
\* the arguments of the call).  "request": while chat_completion waits for
\* the backend to answer (requests.post, the SDK's create); the exception
\* is no Exception, so chat_completion does not catch it and returns no
\* generator.  The exception leaves stream_chat, and the statements after
\* the point it struck at are not run
stream_chat_interrupted_before_stream(st, k, user_input, where) ==
    LET st1 == add_message(st, "user", user_input) IN
    [st |-> IF where = "start" THEN st ELSE st1,
     outcome |-> "KeyboardInterrupt",
     calls |-> IF where = "request" THEN <<turn_request(st1, k, TRUE)>>
               ELSE <<>>,
     emitted |-> <<>>, genRaised |-> FALSE]

\* stream_chat interrupted (KeyboardInterrupt) once chat_completion has
\* returned the generator, at the point `where` with `at` chunks taken.  In
\* a read of the stream (iter_lines, the vendor iterator) the exception is
\* raised inside the generator, which no handler of it catches, and leaves
\* it; in the loop body and after the loop it is raised in stream_chat,
\* and the generator, suspended at its yield or finished, raises nothing.
\* The statements after the point it struck at are not run
stream_chat_interrupted(st, k, user_input, resp, at, where) ==
    LET st1 == add_message(st, "user", user_input)
        stream == chat_completion(k, resp)
        acc == Accumulate(stream.chunks, "")
    IN  [st |-> IF where = "after_append"
                THEN add_message(st1, "assistant", acc.full_response)
                ELSE st1,
         outcome |-> "KeyboardInterrupt",
         calls |-> <<turn_request(st1, k, TRUE)>>,
         emitted |-> SubSeq(stream.chunks, 1, at),
         genRaised |-> where = "read"]

(***************************************************************************)
(* What the backend may answer in a turn.                                  *)
(***************************************************************************)
SeqsUpTo(S, n) == UNION {[1..k -> S] : k \in 0..n}

Frame(text) == <<STREAM_PREFIX, text>>
DoneLine == Frame(STREAM_END_MARKER)

\* the lines a REST/SSE response of a turn is made of
TurnLines ==
    {DoneLine, Frame(J_A), Frame(J_B), Frame(J_EmptyContent),
     Frame(J_EmptyChoices)}

\* the events a vendor stream of a turn is made of: a heartbeat, two content
\* events (one with a role) and a finish event
TurnEvents ==
    {Event(TRUE, TRUE, "", "", NONE),
     Event(TRUE, TRUE, "a", ABSENT, NONE),
     Event(TRUE, TRUE, "b", "assistant", NONE),
     Event(TRUE, TRUE, "", ABSENT, "stop")}

Response(status, lines, events, end) ==
    [status |-> status, lines |-> lines, events |-> events, end |-> end]

FailedRequest == Response("fail", <<>>, <<>>, "eof")

Responses(k) ==
    {FailedRequest} \cup
    IF k = "rest"
    THEN {Response("ok", ls, <<>>, e) :
            ls \in SeqsUpTo(TurnLines, MaxLines), e \in {"eof", "error"}}
    ELSE {Response("ok", <<>>, es, e) :
            es \in SeqsUpTo(TurnEvents, MaxLines), e \in {"eof", "error"}}

(***************************************************************************)
(* The state after construction, and the operations.                       *)
(***************************************************************************)
NoWire == Response("", <<>>, <<>>, "")
NotDecoded == [done |-> FALSE, chunks |-> <<>>, raised |-> FALSE]

Init ==
    /\ kind \in {"rest", "zhipu"}
    /\ \E sp \in {NONE, "", "S"} :
         LET st == Construct(sp) IN
         /\ heap = st.heap
         /\ conversation_history = st.hist
         /\ system_prompt = st.sp
    /\ copy = <<>>
    /\ copySeen = <<>>
    /\ last = NoOp
    /\ wire = NoWire
    /\ decoded = NotDecoded
    /\ request = NoRequest
    /\ rendering = NoRendering
    /\ service = NoService
    /\ env = NoEnv
    /\ factory = NoFactory

\* room for n more messages in a history of at most max
Room(n, max) == Len(conversation_history) + n <= max

AddMessage(role, content) ==
    Commit(add_message(Self, role, content), copy, copySeen,
           [Called("add_message") EXCEPT !.role = role, !.content = content])

SetSystemPrompt(sp) ==
    Commit(set_system_prompt(Self, sp), copy, copySeen,
           [Called("set_system_prompt") EXCEPT !.content = sp])

ClearHistory(keep) ==
    Commit(clear_history(Self, keep), copy, copySeen,
           [Called("clear_history") EXCEPT !.keep = keep])

\* the caller keeps the list get_history() returns
GetHistory ==
    Commit(Self, get_history(Self), History, Called("get_history"))

\* the caller assigns to a message inside the list it was given:
\* history[i]["content"] = content
CallerEditsMessage(i, content) ==
    /\ i \in 1..Len(copy)
    /\ heap[copy[i]].content /= content
    /\ Commit([Self EXCEPT !.heap[copy[i]].content = content], copy,
              [copySeen EXCEPT ![i].content = content],
              [Called("caller_edit") EXCEPT !.content = content])

\* the caller removes the last message of the list it was given: history.pop()
CallerPopsMessage ==
    /\ copy /= <<>>
    /\ Commit(Self, SubSeq(copy, 1, Len(copy) - 1),
              SubSeq(copySeen, 1, Len(copySeen) - 1), Called("caller_pop"))

StreamChat(user_input, resp) ==
    LET r == stream_chat(Self, kind, user_input, resp)
        stream == chat_completion(kind, resp)
    IN  Commit(r.st, copy, copySeen,
               [Called("stream_chat") EXCEPT
                  !.content = user_input,
                  !.outcome = r.outcome,
                  !.status = resp.status,
                  !.end = resp.end,
                  !.delivered = stream.chunks,
                  !.broken = stream.raised,
                  !.emitted = Driven(stream).emitted,
                  !.genRaised = Driven(stream).genRaised,
                  !.calls = r.calls])

(***************************************************************************)
(* Spec: the history operations, in any order.                             *)
(***************************************************************************)
\* the (role, content) pairs add_message is called with
AddInputs ==
    {<<"user", "a">>, <<"user", "b">>, <<"assistant", "a">>, <<"system", "b">>}

Next ==
    \/ \E m \in AddInputs : Room(1, MaxHist) /\ AddMessage(m[1], m[2])
    \/ \E sp \in {"T", ""} : Room(1, MaxHist) /\ SetSystemPrompt(sp)
    \/ \E keep \in BOOLEAN : ClearHistory(keep)

Spec == Init /\ [][Next]_vars

(***************************************************************************)
(* SpecCopy: a caller that keeps the list get_history() returned, while    *)
(* the client goes on.                                                     *)
(***************************************************************************)
CopyResponses ==
    {FailedRequest,
     IF kind = "rest"
     THEN Response("ok", <<Frame(J_A), DoneLine>>, <<>>, "eof")
     ELSE Response("ok", <<>>, <<Event(TRUE, TRUE, "a", ABSENT, "stop")>>, "eof")}

NextCopy ==
    \/ Room(1, MaxCopyHist) /\ AddMessage("user", "a")
    \/ Room(1, MaxCopyHist) /\ SetSystemPrompt("T")
    \/ \E keep \in BOOLEAN : ClearHistory(keep)
    \/ GetHistory
    \/ \E i \in 1..MaxCopyHist : CallerEditsMessage(i, "x")
    \/ CallerPopsMessage
    \/ \E resp \in CopyResponses : Room(2, MaxCopyHist) /\ StreamChat("q", resp)

SpecCopy == Init /\ [][NextCopy]_vars

(***************************************************************************)
(* SpecTurn: streaming turns against any backend behaviour, with the       *)
(* history cleared and the system prompt set in between.                   *)
(***************************************************************************)
NextTurn ==
    \/ \E user_input \in {"q"}, resp \in Responses(kind) :
         Room(2, MaxTurnHist) /\ StreamChat(user_input, resp)
    \/ \E keep \in BOOLEAN : ClearHistory(keep)
    \/ Room(1, MaxTurnHist) /\ SetSystemPrompt("T")

SpecTurn == Init /\ [][NextTurn]_vars

(***************************************************************************)
(* SpecChat: turns of both kinds, with messages added, the history cleared *)
(* and the system prompt set in between.                                   *)
(***************************************************************************)
NormalChat(user_input, resp) ==
    LET r == normal_chat(Self, kind, user_input, resp) IN
    Commit(r.st, copy, copySeen,
           [Called("normal_chat") EXCEPT
              !.content = user_input,
              !.outcome = r.outcome,
              !.status = resp.status,
              !.calls = r.calls])

\* what the backend may answer to a request that is not streamed
NormalResponses ==
    {NormalResponse("fail", "", "")} \cup
    {NormalResponse("ok", shape, "") : shape \in {"no_choices", "empty_choices"}}
    \cup {NormalResponse("ok", "answer", c) : c \in {"a", ""}}

\* what the backend may answer to a streamed request: a failure, a stream
\* without content, a stream with content
ChatResponses ==
    {FailedRequest,
     IF kind = "rest"
     THEN Response("ok", <<DoneLine>>, <<>>, "eof")
     ELSE Response("ok", <<>>, <<>>, "eof"),
     IF kind = "rest"
     THEN Response("ok", <<Frame(J_A), DoneLine>>, <<>>, "eof")
     ELSE Response("ok", <<>>, <<Event(TRUE, TRUE, "a", ABSENT, "stop")>>, "eof")}

NextChat ==
    \/ \E user_input \in {"q", "r"}, resp \in ChatResponses :
         Room(2, MaxChatHist) /\ StreamChat(user_input, resp)
    \/ \E user_input \in {"q", "r"}, resp \in NormalResponses :
         Room(2, MaxChatHist) /\ NormalChat(user_input, resp)
    \/ Room(1, MaxChatHist) /\ AddMessage("system", "b")
    \/ \E keep \in BOOLEAN : ClearHistory(keep)
    \/ Room(1, MaxChatHist) /\ SetSystemPrompt("T")

SpecChat == Init /\ [][NextChat]_vars

(***************************************************************************)
(* SpecCancel: streaming turns that run to their end or are interrupted    *)
(* by the user while they run.                                             *)
(***************************************************************************)
\* stream_chat(client, user_input, model), interrupted before there is a
\* stream
InterruptedBeforeStream(user_input, where) ==
    LET r == stream_chat_interrupted_before_stream(Self, kind, user_input,
                                                   where) IN
    Commit(r.st, copy, copySeen,
           [Called("stream_chat") EXCEPT
              !.content = user_input,
              !.outcome = r.outcome,
              !.where = where,
              !.emitted = r.emitted,
              !.genRaised = r.genRaised,
              !.calls = r.calls])

\* stream_chat(client, user_input, model), interrupted at the point `where`
\* of the stream with `at` chunks taken
InterruptedStreamChat(user_input, resp, at, where) ==
    LET r == stream_chat_interrupted(Self, kind, user_input, resp, at, where)
        stream == chat_completion(kind, resp)
    IN  /\ Running(kind, resp, at, where)
        /\ Commit(r.st, copy, copySeen,
                  [Called("stream_chat") EXCEPT
                     !.content = user_input,
                     !.outcome = r.outcome,
                     !.where = where,
                     !.status = resp.status,
                     !.end = resp.end,
                     !.delivered = stream.chunks,
                     !.broken = stream.raised,
                     !.emitted = r.emitted,
                     !.genRaised = r.genRaised,
                     !.calls = r.calls])

\* what the backend may answer to the request of a turn that may be
\* interrupted: a failure, or a stream of content chunks, chunks with an
\* empty choices list (the REST/SSE wire) or finish events (the vendor
\* stream), with or without its end marker, that ends or breaks
CancelResponses(k) ==
    {FailedRequest} \cup
    IF k = "rest"
    THEN {Response("ok", ls, <<>>, e) :
            ls \in SeqsUpTo({DoneLine, Frame(J_A), Frame(J_EmptyChoices)},
                            MaxLines),
            e \in {"eof", "error"}}
    ELSE {Response("ok", <<>>, es, e) :
            es \in SeqsUpTo({Event(TRUE, TRUE, "a", ABSENT, NONE),
                             Event(TRUE, TRUE, "", ABSENT, "stop")},
                            MaxLines),
            e \in {"eof", "error"}}

NextCancel ==
    \/ \E resp \in CancelResponses(kind) :
         Room(2, MaxCancelHist) /\ StreamChat("q", resp)
    \/ \E where \in {"start", "setup", "request"} :
         Room(2, MaxCancelHist) /\ InterruptedBeforeStream("q", where)
    \/ \E resp \in CancelResponses(kind), at \in 0..MaxLines,
          where \in {"read", "body", "after_loop", "after_append"} :
         Room(2, MaxCancelHist) /\ InterruptedStreamChat("q", resp, at, where)
    \/ \E keep \in BOOLEAN : ClearHistory(keep)

SpecCancel == Init /\ [][NextCancel]_vars

(***************************************************************************)
(* SpecRequest: chat_completion called directly, with any max_tokens, on   *)
(* a client whose history grows.                                           *)
(***************************************************************************)
\* chat_completion(messages=get_history(), model="m", max_tokens=max_tokens,
\* stream=stream) against a backend that accepts the request or fails it:
\* the request made, and what the call returns (None, a chunk generator that
\* is not read, or the response body)
ChatCompletion(max_tokens, stream, status) ==
    /\ request' =
         [made |-> TRUE,
          args |-> [max_tokens |-> max_tokens, stream |-> stream],
          sent |-> request_of(kind, History, "m", DEFAULT_TEMPERATURE,
                              max_tokens, stream),
          result |-> IF status = "fail" THEN "None"
                     ELSE IF stream THEN "generator" ELSE "body"]
    /\ last' = [Called("chat_completion") EXCEPT !.status = status]
    /\ UNCHANGED <<kind, heap, conversation_history, system_prompt, copy,
                   copySeen, wire, decoded, rendering, service, env, factory>>

\* the values max_tokens is given: the defaults of the two adapters, and
\* the values around 0
MaxTokensInputs == {ZHIPU_DEFAULT_MAX_TOKENS, 0, 1, DEFAULT_MAX_TOKENS}

NextRequest ==
    \/ \E c \in {"a", "b"} : Room(1, MaxReqHist) /\ AddMessage("user", c)
    \/ \E max_tokens \in MaxTokensInputs, stream \in BOOLEAN,
          status \in {"ok", "fail"} :
         ChatCompletion(max_tokens, stream, status)

SpecRequest == Init /\ [][NextRequest]_vars

(***************************************************************************)
(* SpecModels: list_models on a client whose history and system prompt     *)
(* change in between.                                                      *)
(***************************************************************************)
\* client.list_models() against a backend that answers with resp
ListModels(resp) ==
    LET r == list_models(kind, resp) IN
    Commit(Self, copy, copySeen,
           [Called("list_models") EXCEPT
              !.status = resp.status, !.outcome = r.outcome,
              !.models = r.value])

\* what the backend may answer to GET /models
ModelsResponses ==
    {ModelsResponse("fail", NoBody)} \cup
    {ModelsResponse("ok", b) :
       b \in {ModelsBody("dict", TRUE, <<"m1", "m2">>),
              ModelsBody("dict", TRUE, <<>>),
              ModelsBody("dict", FALSE, <<>>),
              ModelsBody("dict", FALSE, <<"x">>),
              ModelsBody("list", FALSE, <<"m1">>),
              ModelsBody("list", FALSE, <<>>)}}

NextModels ==
    \/ \E m \in AddInputs : Room(1, MaxModelsHist) /\ AddMessage(m[1], m[2])
    \/ Room(1, MaxModelsHist) /\ SetSystemPrompt("T")
    \/ \E keep \in BOOLEAN : ClearHistory(keep)
    \/ \E resp \in ModelsResponses : ListModels(resp)

SpecModels == Init /\ [][NextModels]_vars

(***************************************************************************)
(* SpecRender: _replace_template_variables on its own, applied to a        *)
(* template and then to what it returned.                                  *)
(***************************************************************************)
\* the characters of a string, for the strings the templates are made of
Chars(str) ==
    CASE str = "" -> <<>>
      [] str = "x" -> <<"x">>
      [] str = "a" -> <<"a">>
      [] str = "b" -> <<"b">>
      [] str = "c" -> <<"c">>
      [] str = "{{" -> <<"{", "{">>
      [] str = "a}}" -> <<"a", "}", "}">>
      [] str = "{{a}}" -> <<"{", "{", "a", "}", "}">>
      [] str = "{{b}}" -> <<"{", "{", "b", "}", "}">>
      [] str = "{{c}}" -> <<"{", "{", "c", "}", "}">>

RECURSIVE Flatten(_)
Flatten(pieces) ==
    IF pieces = <<>> THEN <<>> ELSE Head(pieces) \o Flatten(Tail(pieces))

\* the pieces a template is put together from: the placeholders of two keys
\* of the mapping and of a key that is not in it, plain text, and braces that
\* belong to no placeholder
TemplatePieces ==
    {Chars("{{a}}"), Chars("{{b}}"), Chars("{{c}}"), Chars("x"), Chars("{{"),
     Chars("a}}")}

Templates == {Flatten(ps) : ps \in SeqsUpTo(TemplatePieces, MaxPieces)}

\* the values of a mapping: empty, plain text, a placeholder, an opening
\* brace pair
VarValues == {Chars(""), Chars("x"), Chars("{{b}}"), Chars("{{")}

\* the mappings over the keys a and b, in every order of insertion
Mappings ==
    {NoneVars, Dict(<<>>)}
    \cup {Dict(<<Item(Chars(k), v)>>) : k \in {"a", "b"}, v \in VarValues}
    \cup {Dict(<<Item(Chars(k[1]), v), Item(Chars(k[2]), w)>>) :
            k \in {<<"a", "b">>, <<"b", "a">>}, v \in VarValues, w \in VarValues}

InitRender ==
    /\ kind = "rest"
    /\ heap = <<>>
    /\ conversation_history = <<>>
    /\ system_prompt = NONE
    /\ copy = <<>>
    /\ copySeen = <<>>
    /\ last = NoOp
    /\ wire = NoWire
    /\ decoded = NotDecoded
    /\ request = NoRequest
    /\ service = NoService
    /\ env = NoEnv
    /\ factory = NoFactory
    /\ \E t \in Templates, m \in Mappings :
         rendering = [template |-> t, vars |-> m, passes |-> 0,
                      previous |-> t, result |-> t]

\* _replace_template_variables applied to the template, and then to its own
\* result, with the same mapping
Render ==
    /\ rendering.passes < 2
    /\ rendering' =
         [rendering EXCEPT
            !.passes = @ + 1,
            !.previous = rendering.result,
            !.result = replace_template_variables(rendering.result, rendering.vars)]
    /\ UNCHANGED <<kind, heap, conversation_history, system_prompt, copy,
                   copySeen, last, wire, decoded, request, service, env,
                   factory>>

NextRender == Render

SpecRender == InitRender /\ [][NextRender]_vars

(***************************************************************************)
(* SpecService: a PromptService or a TranslationService is constructed     *)
(* over template files that are there or not, and then used for turns.     *)
(***************************************************************************)
InitService ==
    /\ kind = "rest"
    /\ heap = <<>>
    /\ conversation_history = <<>>
    /\ system_prompt = NONE
    /\ copy = <<>>
    /\ copySeen = <<>>
    /\ last = NoOp
    /\ wire = NoWire
    /\ decoded = NotDecoded
    /\ request = NoRequest
    /\ rendering = NoRendering
    /\ service = NoService
    /\ env = NoEnv
    /\ factory = NoFactory

\* the caller holds the client `st` (through the service) from now on
Holds(st) ==
    /\ heap' = st.heap
    /\ conversation_history' = st.hist
    /\ system_prompt' = st.sp

\* PromptService(api_key, system_template_path=..., user_template_path=...,
\* user_template_vars=...): the system template is loaded, the client is
\* constructed with it, the user template is loaded.  An exception of a load
\* leaves the constructor, and the caller gets no object.
NewPromptService(system, user, user_template_vars) ==
    LET system_prompt_ == load_template_file(TemplateConfig(system, Dict(<<>>)))
        client == Construct(OptStr(system_prompt_.value))
        user_config == TemplateConfig(user, user_template_vars)
        user_template == load_template_file(user_config)
        made == [NoService EXCEPT !.cls = "PromptService", !.system = system,
                                  !.user = user,
                                  !.user_template_vars = user_config.template_vars]
    IN  /\ service.cls = ""
        /\ IF system_prompt_.outcome /= "returned"
           THEN /\ service' = [made EXCEPT !.outcome = system_prompt_.outcome]
                /\ UNCHANGED <<heap, conversation_history, system_prompt>>
           ELSE IF user_template.outcome /= "returned"
           THEN /\ service' = [made EXCEPT !.outcome = user_template.outcome,
                                            !.clientMade = TRUE]
                /\ UNCHANGED <<heap, conversation_history, system_prompt>>
           ELSE /\ service' = [made EXCEPT
                                !.outcome = "returned",
                                !.exists = TRUE,
                                !.clientMade = TRUE,
                                !.user_template = user_template.value,
                                !.configured =
                                    [user_template |-> user_template.value,
                                     user_template_vars |->
                                        user_config.template_vars]]
                /\ Holds(client)
        /\ last' = [NoOp EXCEPT !.op = "PromptService"]
        /\ UNCHANGED <<kind, copy, copySeen, wire, decoded, request, rendering,
                       env, factory>>

\* TranslationService(api_key, base_url, from_lang, to_lang), with `system`
\* what is at system-prompts/translation.txt
NewTranslationService(from_lang, to_lang, system) ==
    LET system_prompt_ == load_system_prompt(from_lang, to_lang, system)
        client == Construct(OptStr(system_prompt_.value))
        made == [NoService EXCEPT !.cls = "TranslationService", !.system = system]
    IN  /\ service.cls = ""
        /\ IF system_prompt_.outcome /= "returned"
           THEN /\ service' = [made EXCEPT !.outcome = system_prompt_.outcome]
                /\ UNCHANGED <<heap, conversation_history, system_prompt>>
           ELSE /\ service' = [made EXCEPT !.outcome = "returned",
                                            !.exists = TRUE,
                                            !.clientMade = TRUE]
                /\ Holds(client)
        /\ last' = [NoOp EXCEPT !.op = "TranslationService"]
        /\ UNCHANGED <<kind, copy, copySeen, wire, decoded, request, rendering,
                       env, factory>>

\* PromptService.stream_chat(text)
ServiceStreamChat(text, resp) ==
    LET turn == service_stream_chat(service, text)
        r == stream_chat(Self, kind, Str(turn.processed), resp)
    IN  /\ service.exists
        /\ service.cls = "PromptService"
        /\ Store(r.st, copy, copySeen,
                 [Called("PromptService.stream_chat") EXCEPT
                    !.content = Str(turn.processed),
                    !.text = text,
                    !.outcome = r.outcome,
                    !.status = resp.status,
                    !.calls = r.calls])
        /\ service' = [service EXCEPT
                         !.user_template = turn.user_template,
                         !.user_template_vars = turn.user_template_vars]
        /\ UNCHANGED <<request, rendering, env, factory>>

\* TranslationService.translate(text, model)
Translate(text, resp) ==
    LET r == stream_chat(Self, kind, Str(text), resp) IN
    /\ service.exists
    /\ service.cls = "TranslationService"
    /\ Commit(r.st, copy, copySeen,
              [Called("translate") EXCEPT
                 !.content = Str(text),
                 !.text = text,
                 !.outcome = r.outcome,
                 !.status = resp.status])

\* what may be at a declared path
Missing == Path(TRUE, "missing", <<>>)
Unreadable == Path(TRUE, "unreadable", <<>>)
File(text) == Path(TRUE, "file", text)

SystemPaths == {NoPath, Missing, Unreadable, File(<<"S">>)}

\* user templates: an empty file, the placeholder of the turn's text alone,
\* with text and white space around it, with the placeholder of a configured
\* key, and a template without placeholders
UserPaths ==
    {NoPath, Missing,
     File(<<>>),
     File(Placeholder(USER_INPUT)),
     File(<<" ", "x">> \o Placeholder(USER_INPUT) \o <<" ">>),
     File(Placeholder(<<"a">>) \o Placeholder(USER_INPUT)),
     File(<<"x">>)}

\* user-template variables: none, a key of its own, the reserved key, and
\* both
UserVars ==
    {NoneVars, Dict(<<>>),
     Dict(<<Item(<<"a">>, <<"x">>)>>),
     Dict(<<Item(USER_INPUT, <<"x">>)>>),
     Dict(<<Item(<<"a">>, <<"x">>), Item(USER_INPUT, <<"x">>)>>)}

\* the texts of a turn
TurnTexts == {<<"h", "i">>, Placeholder(<<"a">>)}

TranslationPaths ==
    {Missing, Unreadable,
     File(<<"{", "{", "f", "r", "o", "m", "}", "}", ">",
            "{", "{", "t", "o", "}", "}">>)}

NextService ==
    \/ \E system \in SystemPaths, user \in UserPaths, vs \in UserVars :
         NewPromptService(system, user, vs)
    \/ \E system \in TranslationPaths :
         NewTranslationService(<<"z", "h">>, <<"e", "n">>, system)
    \/ \E text \in TurnTexts, resp \in CopyResponses :
         Room(2, MaxServiceHist) /\ ServiceStreamChat(text, resp)
    \/ \E text \in TurnTexts, resp \in CopyResponses :
         Room(2, MaxServiceHist) /\ Translate(text, resp)

SpecService == InitService /\ [][NextService]_vars

(***************************************************************************)
(* SpecFactory: the module-level ServiceFactory, its services accessed by  *)
(* name while the credentials in the environment change.                   *)
(***************************************************************************)
\* the values of the two credentials: not set, set to the empty string, set
ZhipuaiKeys == {ABSENT, "", "z", "z2"}
DeepseekKeys == {ABSENT, "d"}

\* services = ServiceFactory(), in any environment
InitFactory ==
    /\ kind = "rest"
    /\ heap = <<>>
    /\ conversation_history = <<>>
    /\ system_prompt = NONE
    /\ copy = <<>>
    /\ copySeen = <<>>
    /\ last = NoOp
    /\ wire = NoWire
    /\ decoded = NotDecoded
    /\ request = NoRequest
    /\ rendering = NoRendering
    /\ service = NoService
    /\ \E z \in ZhipuaiKeys, d \in DeepseekKeys :
         /\ env = Env(z, d)
         /\ factory = [NoFactory EXCEPT !.startup = Env(z, d)]

\* the environment changes: os.environ[name] = value, del os.environ[name]
SetEnv(name, value) ==
    /\ env[name] /= value
    /\ env' = [env EXCEPT ![name] = value]
    /\ UNCHANGED <<kind, heap, conversation_history, system_prompt, copy,
                   copySeen, last, wire, decoded, request, rendering, service,
                   factory>>

\* services.<name>: the property calls _ensure_service(name)
AccessService(name) ==
    LET r == ensure_service(factory.services, name, env) IN
    /\ factory.accesses < MaxAccesses
    /\ factory' =
         [factory EXCEPT
            !.services = r.services,
            !.accesses = @ + 1,
            !.access = [name |-> name, env |-> env, outcome |-> r.outcome,
                        value |-> r.value, client |-> r.client,
                        before |-> factory.services]]
    /\ UNCHANGED <<kind, heap, conversation_history, system_prompt, copy,
                   copySeen, last, wire, decoded, request, rendering, service,
                   env>>

NextFactory ==
    \/ \E z \in ZhipuaiKeys : SetEnv("ZHIPUAI_API_KEY", z)
    \/ \E d \in DeepseekKeys : SetEnv("DEEPSEEK_API_KEY", d)
    \/ \E name \in ServiceNames : AccessService(name)

SpecFactory == InitFactory /\ [][NextFactory]_vars

(***************************************************************************)
(* SpecDecoder: a stream decoder on its own, run to its end over any       *)
(* response.                                                               *)
(***************************************************************************)
PaddedDoneLine == <<STREAM_PREFIX, Space, STREAM_END_MARKER, Space>>

\* lines of an SSE body: a blank line, a comment, the end marker (bare and
\* with white space around it), a malformed frame, and frames whose payload
\* is JSON (an empty object, two chunks, one with white space before it)
WireLines ==
    {<<>>, <<": ping">>, DoneLine, PaddedDoneLine, Frame(J_Bad),
     Frame(J_EmptyObject), Frame(J_A), <<STREAM_PREFIX, Space, J_B>>}

\* events of a vendor stream
WireEvents ==
    {Event(FALSE, FALSE, ABSENT, ABSENT, ABSENT),
     Event(TRUE, FALSE, ABSENT, ABSENT, ABSENT),
     Event(TRUE, FALSE, ABSENT, ABSENT, "stop"),
     Event(TRUE, TRUE, "", "", NONE),
     Event(TRUE, TRUE, NONE, NONE, ABSENT),
     Event(TRUE, TRUE, "a", ABSENT, NONE),
     Event(TRUE, TRUE, "", "assistant", NONE),
     Event(TRUE, TRUE, "", ABSENT, "stop"),
     Event(TRUE, TRUE, "b", "", "stop")}

InitDecoder ==
    /\ kind \in {"rest", "zhipu"}
    /\ heap = <<>>
    /\ conversation_history = <<>>
    /\ system_prompt = NONE
    /\ copy = <<>>
    /\ copySeen = <<>>
    /\ last = NoOp
    /\ \E e \in {"eof", "error"} :
         IF kind = "rest"
         THEN \E ls \in SeqsUpTo(WireLines, MaxStream) :
                wire = Response("ok", ls, <<>>, e)
         ELSE \E es \in SeqsUpTo(WireEvents, MaxStream) :
                wire = Response("ok", <<>>, es, e)
    /\ decoded = NotDecoded
    /\ request = NoRequest
    /\ rendering = NoRendering
    /\ service = NoService
    /\ env = NoEnv
    /\ factory = NoFactory

Decoded(g) == [done |-> TRUE, chunks |-> g.chunks, raised |-> g.raised]

DecodeSSE ==
    /\ kind = "rest"
    /\ ~decoded.done
    /\ decoded' = Decoded(handle_stream_response(wire.lines, wire.end))
    /\ UNCHANGED <<kind, heap, conversation_history, system_prompt, copy,
                   copySeen, last, wire, outside>>

DecodeZhipu ==
    /\ kind = "zhipu"
    /\ ~decoded.done
    /\ decoded' = Decoded(handle_zhipu_stream_response(wire.events, wire.end))
    /\ UNCHANGED <<kind, heap, conversation_history, system_prompt, copy,
                   copySeen, last, wire, outside>>

NextDecoder == DecodeSSE \/ DecodeZhipu

SpecDecoder == InitDecoder /\ [][NextDecoder]_vars

(***************************************************************************)
(* Vocabulary of the properties.                                           *)
(***************************************************************************)
SystemIndexes(h) == {i \in 1..Len(h) : h[i].role = "system"}

NonSystem(h) == SelectSeq(h, LAMBDA m : m.role /= "system")

\* the turn's user message, as the last operation (a stream_chat) was given it
UserMessage == Message("user", last.content)

\* the content delta a chunk carries: "" when it carries none
DeltaOf(chunk) ==
    IF chunk.t = "object" /\ chunk.hasChoices /\ chunk.choices /= <<>>
       /\ chunk.choices[1].hasDelta
       /\ chunk.choices[1].content \notin {ABSENT, NONE}
    THEN chunk.choices[1].content
    ELSE ""

RECURSIVE ConcatDeltas(_)
ConcatDeltas(chunks) ==
    IF chunks = <<>> THEN "" ELSE DeltaOf(Head(chunks)) \o ConcatDeltas(Tail(chunks))

HasContent(chunks) == \E i \in 1..Len(chunks) : DeltaOf(chunks[i]) /= ""

\* the last operation was a streaming turn whose request went through
TurnStreamed == last.op = "stream_chat" /\ last.status = "ok"

\* ... and whose chunk sequence ended normally: the response holds the
\* chunks last.delivered (what its decoder yields when it is driven to the
\* end of the response) and the transport does not fail before the decoder
\* is through with it
EndedNormally ==
    /\ TurnStreamed
    /\ ~last.broken
    /\ (kind = "zhipu" => last.end = "eof")

\* ... and whose transport failed while the decoder was reading
FailedMidStream ==
    /\ TurnStreamed
    /\ IF kind = "rest" THEN last.broken ELSE last.end = "error"

(***************************************************************************)
(* C1 (refuted by the code).  For every sequence of add_message calls with *)
(* roles among system, user, assistant: get_history() returns the messages *)
(* in call order, and the history holds at most one system message, which  *)
(* is at index 0.                                                          *)
(***************************************************************************)
C1_CallOrderAndOneSystemFirst ==
    /\ last.op = "add_message" =>
         History = Append(last.pre, Message(last.role, last.content))
    /\ SystemIndexes(History) \subseteq {1}

(***************************************************************************)
(* C2.  A streaming turn whose chunk sequence ends normally and in which   *)
(* every chunk carries an empty or absent content delta (zero chunks       *)
(* included) appends no assistant message: the history is the history      *)
(* before the turn followed by the turn's user message.                    *)
(***************************************************************************)
C2_ZeroContentTurnAppendsNoAssistant ==
    (EndedNormally /\ ~HasContent(last.delivered)) =>
        History = Append(last.pre, UserMessage)

C2_Witness ==
    /\ EndedNormally
    /\ last.delivered /= <<>>
    /\ ~HasContent(last.delivered)
    /\ last.outcome = "returned"
    /\ last.pre /= <<>>

(***************************************************************************)
(* C3.  When the chat-completion request itself fails, the turn ends in a  *)
(* failure that reaches the caller of stream_chat (the call raises), the   *)
(* turn's user message is in the history and no assistant message was      *)
(* added.                                                                  *)
(***************************************************************************)
C3_FailedRequestRaisesAndKeepsUserMessage ==
    (last.op = "stream_chat" /\ last.status = "fail") =>
        /\ last.outcome = "raised"
        /\ History = Append(last.pre, UserMessage)

C3_Witness ==
    /\ last.op = "stream_chat"
    /\ last.status = "fail"
    /\ last.outcome = "raised"
    /\ last.pre /= <<>>
    /\ History[Len(History)] = UserMessage

(***************************************************************************)
(* C4 (refuted by the code).  For both adapters, when the stream fails     *)
(* after non-empty content deltas were delivered, the partial text is not  *)
(* appended as an assistant message: the history is the history before     *)
(* the turn followed by the turn's user message.                           *)
(***************************************************************************)
C4_PartialTextNotCommitted ==
    (FailedMidStream /\ HasContent(last.delivered)) =>
        History = Append(last.pre, UserMessage)

(***************************************************************************)
(* C5 (refuted by the code).  A streaming turn whose chunk sequence ends   *)
(* normally and holds a non-empty content delta appends exactly one        *)
(* assistant message, right after the turn's user message, whose content   *)
(* is the concatenation, in arrival order, of the content deltas of all    *)
(* the chunks the decoder emitted.                                         *)
(***************************************************************************)
C5_AssistantMessageIsConcatenation ==
    (EndedNormally /\ HasContent(last.delivered)) =>
        History = last.pre \o <<UserMessage,
                                 Message("assistant", ConcatDeltas(last.emitted))>>

(***************************************************************************)
(* C6 (refuted by the code).  The list get_history() returns is a          *)
(* defensive copy: no later operation on the client changes what is read   *)
(* through it, and no change the caller makes to it or to a message in it  *)
(* changes the client's history.                                           *)
(***************************************************************************)
C6_DefensiveCopy ==
    /\ CopyView = copySeen
    /\ last.op \in {"caller_edit", "caller_pop"} => History = last.pre

(***************************************************************************)
(* C7 (refuted by the code).  After any sequence of add_message,           *)
(* clear_history and set_system_prompt calls, set_system_prompt(text)      *)
(* leaves exactly one system message, at index 0 and with content text,    *)
(* and every non-system message in place and in order.                     *)
(***************************************************************************)
C7_SetSystemPromptOneSystemFirst ==
    last.op = "set_system_prompt" =>
        /\ SystemIndexes(History) = {1}
        /\ History[1].content = last.content
        /\ NonSystem(History) = NonSystem(last.pre)

(***************************************************************************)
(* C8 (refuted by the code).  For a history whose first message is a       *)
(* system message, however it got there, clear_history(True) leaves that   *)
(* one message with its content and clear_history(False) leaves nothing;   *)
(* for a history without a system message clear_history leaves nothing.    *)
(***************************************************************************)
C8_ClearHistoryKeepsFirstSystem ==
    last.op = "clear_history" =>
        IF last.pre /= <<>> /\ last.pre[1].role = "system"
        THEN History = IF last.keep THEN <<last.pre[1]>> ELSE <<>>
        ELSE SystemIndexes(last.pre) = {} => History = <<>>

(***************************************************************************)
(* Vocabulary of the properties of the REST/SSE decoder.                   *)
(***************************************************************************)
IsDataLine(line) == line /= <<>> /\ Head(line) = STREAM_PREFIX

\* the text of a data line after the marker, white space around it dropped
PayloadOf(line) == SelectSeq(Tail(line), LAMBDA piece : piece /= Space)

IsJsonText(text) ==
    text \in {J_EmptyObject, J_Null, J_Number, J_NoChoices, J_EmptyChoices,
              J_NoDelta, J_NoContent, J_EmptyContent, J_NullContent, J_A, J_B}

\* a data line that ends the stream
EndsStream(line) == IsDataLine(line) /\ PayloadOf(line) = <<STREAM_END_MARKER>>

\* a data line whose payload is JSON
WellFormed(line) ==
    IsDataLine(line) /\ Len(PayloadOf(line)) = 1 /\ IsJsonText(PayloadOf(line)[1])

\* a data line whose payload is neither the end marker nor JSON
Malformed(line) == IsDataLine(line) /\ ~EndsStream(line) /\ ~WellFormed(line)

\* a frame of the shape the wire format gives: an object with a choices list
IsChunkFrame(line) ==
    WellFormed(line) /\
    PayloadOf(line)[1] \in {J_EmptyChoices, J_NoDelta, J_NoContent,
                            J_EmptyContent, J_NullContent, J_A, J_B}

\* the lines before the first line that ends the stream
RECURSIVE BeforeEnd(_)
BeforeEnd(lines) ==
    IF lines = <<>> \/ EndsStream(Head(lines))
    THEN <<>>
    ELSE <<Head(lines)>> \o BeforeEnd(Tail(lines))

\* the first index of a `data: [DONE]` line, 0 when there is none
FirstDone(lines) ==
    IF \E i \in 1..Len(lines) : lines[i] = DoneLine
    THEN CHOOSE i \in 1..Len(lines) :
           lines[i] = DoneLine /\ \A j \in 1..(i - 1) : lines[j] /= DoneLine
    ELSE 0

SSEDecoded == kind = "rest" /\ decoded.done

\* what the frames of these lines say, as values
FrameValues(lines) ==
    [i \in 1..Len(lines) |-> JsonLoadsText(PayloadOf(lines[i])[1]).v]

\* the index of the first malformed line before the end of the stream, 0
\* when there is none
FirstMalformed(lines) ==
    LET before == BeforeEnd(lines) IN
    IF \E i \in 1..Len(before) : Malformed(before[i])
    THEN CHOOSE i \in 1..Len(before) :
           Malformed(before[i]) /\ \A j \in 1..(i - 1) : ~Malformed(before[j])
    ELSE 0

\* the last n elements of s
LastOf(s, n) == SubSeq(s, Len(s) - n + 1, Len(s))

(***************************************************************************)
(* C9 (refuted by the code).  In the REST/SSE decoder a `data: ` line      *)
(* whose payload is not valid JSON produces no chunk and does not end the  *)
(* sequence: every well-formed frame that arrives after it and before the  *)
(* end marker is still emitted, in arrival order, however many malformed   *)
(* frames are interleaved.  The chunks emitted for the lines after the     *)
(* first malformed line are the last chunks of the sequence: they are the  *)
(* values of the well-formed frames among these lines, and no more chunks  *)
(* are emitted than there are well-formed frames.                          *)
(***************************************************************************)
C9_MalformedFrameIsSkipped ==
    (SSEDecoded /\ FirstMalformed(wire.lines) > 0) =>
        LET before == BeforeEnd(wire.lines)
            after == SubSeq(before, FirstMalformed(wire.lines) + 1, Len(before))
            frames == SelectSeq(after, WellFormed)
        IN  /\ Len(decoded.chunks) <= Len(SelectSeq(before, WellFormed))
            /\ Len(decoded.chunks) >= Len(frames)
            /\ LastOf(decoded.chunks, Len(frames)) = FrameValues(frames)

(***************************************************************************)
(* C10.  In the REST/SSE decoder the first `data: [DONE]` line ends the    *)
(* chunk sequence without an error, and no chunk is emitted for a line at  *)
(* or after it, even for a well-formed frame.                              *)
(***************************************************************************)
C10_DoneEndsTheSequence ==
    (SSEDecoded /\ FirstDone(wire.lines) > 0) =>
        LET before == SubSeq(wire.lines, 1, FirstDone(wire.lines) - 1) IN
        /\ ~decoded.raised
        /\ decoded.chunks = handle_stream_response(before, "eof").chunks
        /\ Len(decoded.chunks) <= Cardinality({i \in 1..Len(before) : WellFormed(before[i])})

C10_Witness ==
    /\ SSEDecoded
    /\ wire.end = "error"
    /\ Len(wire.lines) >= 3
    /\ IsChunkFrame(wire.lines[1])
    /\ wire.lines[2] = DoneLine
    /\ IsChunkFrame(wire.lines[3])
    /\ Len(decoded.chunks) = 1

(***************************************************************************)
(* C11 (refuted by the code).  The REST/SSE decoder emits exactly one      *)
(* chunk per line that begins with `data: `, precedes the end marker and   *)
(* has a payload that parses as JSON, whatever the parsed value (an empty  *)
(* object included), in arrival order, and nothing for blank lines and     *)
(* lines without the marker: the chunks are the values of the well-formed  *)
(* frames before the end, and there are as many chunks as such frames.     *)
(***************************************************************************)
C11_OneChunkPerWellFormedFrame ==
    SSEDecoded =>
        LET frames == SelectSeq(BeforeEnd(wire.lines), WellFormed) IN
        /\ decoded.chunks = FrameValues(frames)
        /\ Len(decoded.chunks) = Len(frames)

(***************************************************************************)
(* Vocabulary of the properties of the native-SDK decoder.                 *)
(***************************************************************************)
ZhipuDecoded == kind = "zhipu" /\ decoded.done

\* the finish reason an emitted chunk carries, NONE when it carries none
FinishReasonOf(chunk) == chunk.choices[1].finish_reason

\* the indexes of the emitted chunks that carry a finish reason
Finishing(chunks) ==
    {i \in 1..Len(chunks) : FinishReasonOf(chunks[i]) \notin {NONE, ABSENT, ""}}

(***************************************************************************)
(* C12 (refuted by the code).  In the native-SDK decoder a chunk that      *)
(* carries a finish reason is the final chunk of the sequence: no chunk is *)
(* emitted after the first emitted chunk whose finish_reason is set, even  *)
(* if the vendor stream delivers further events.                           *)
(***************************************************************************)
C12_FinishReasonChunkIsLast ==
    ZhipuDecoded =>
        \A i \in Finishing(decoded.chunks) : i = Len(decoded.chunks)

(***************************************************************************)
(* C13.  In the native-SDK decoder a vendor event is emitted as a chunk if *)
(* and only if it has a first choice with a delta and carries at least one *)
(* of: non-empty content, a non-empty role, a finish reason.  Events with  *)
(* none of the three are skipped, and the emitted chunks keep the arrival  *)
(* order of their events.                                                  *)
(***************************************************************************)
\* an attribute of an event that is there and is not empty
Carried(v) == v \notin {ABSENT, NONE, ""}

\* the event has a first choice with a delta, and carries content, a role or
\* a finish reason
Emittable(e) ==
    /\ e.valid
    /\ e.hasDelta
    /\ (Carried(e.content) \/ Carried(e.role) \/ Carried(e.finish_reason))

\* the role, content and finish reason of an event, as a chunk shows them
ChunkOfEvent(e) ==
    ZhipuData(IF e.role = ABSENT THEN "" ELSE e.role,
              IF e.content = ABSENT THEN "" ELSE e.content,
              IF e.finish_reason = ABSENT THEN NONE ELSE e.finish_reason)

C13_EmittedIffCarriesSomething ==
    ZhipuDecoded =>
        LET emittable == SelectSeq(wire.events, Emittable) IN
        decoded.chunks = [i \in 1..Len(emittable) |-> ChunkOfEvent(emittable[i])]

C13_Witness ==
    /\ ZhipuDecoded
    /\ Len(wire.events) = 4
    /\ ~Emittable(wire.events[1]) /\ wire.events[1].hasDelta
    /\ Emittable(wire.events[2]) /\ ~Carried(wire.events[2].content)
         /\ ~Carried(wire.events[2].role)
    /\ ~Emittable(wire.events[3]) /\ Carried(wire.events[3].finish_reason)
    /\ Emittable(wire.events[4]) /\ Carried(wire.events[4].content)
    /\ Len(decoded.chunks) = 2

(***************************************************************************)
(* C14 (refuted by the code).  For every adapter, the chat-completion      *)
(* request sent to the backend contains a max_tokens parameter if and only *)
(* if the max_tokens argument is greater than 0; with max_tokens <= 0 the  *)
(* parameter is omitted from the request.                                  *)
(***************************************************************************)
C14_MaxTokensSentIffPositive ==
    request.made =>
        /\ ("max_tokens" \in DOMAIN request.sent) <=> (request.args.max_tokens > 0)
        /\ request.args.max_tokens > 0 =>
             request.sent.max_tokens = request.args.max_tokens

(***************************************************************************)
(* Vocabulary of the properties of rendering.                              *)
(***************************************************************************)
\* the template was rendered once / the rendered text was rendered again
RenderedOnce == rendering.passes = 1
RenderedTwice == rendering.passes = 2

IsBrace(c) == c \in {"{", "}"}

HasBrace(text) == \E i \in 1..Len(text) : IsBrace(text[i])

Occurs(text, old) == \E i \in 1..Len(text) : OccursAt(text, i, old)

\* the items whose placeholder stands at the head of the text
ItemsAtHead(text, items) ==
    {i \in 1..Len(items) : OccursAt(text, 1, Placeholder(items[i].key))}

\* the text with every placeholder occurrence of a key of the mapping
\* replaced by the key's value, and every other character as it is
RECURSIVE Substituted(_, _)
Substituted(text, items) ==
    IF text = <<>> THEN <<>>
    ELSE IF ItemsAtHead(text, items) /= {}
         THEN LET it == items[CHOOSE i \in ItemsAtHead(text, items) : TRUE] IN
              it.value \o
              Substituted(SubSeq(text, Len(Placeholder(it.key)) + 1, Len(text)),
                          items)
         ELSE <<Head(text)>> \o Substituted(Tail(text), items)

Reverse(seq) == [i \in 1..Len(seq) |-> seq[Len(seq) + 1 - i]]

\* the length of the run of characters that are no braces at the head
RECURSIVE IdentifierLen(_)
IdentifierLen(text) ==
    IF text = <<>> \/ IsBrace(Head(text)) THEN 0 ELSE 1 + IdentifierLen(Tail(text))

\* every brace of the text belongs to a placeholder of the form {{identifier}}
RECURSIVE OnlyPlaceholderBraces(_)
OnlyPlaceholderBraces(text) ==
    IF text = <<>> THEN TRUE
    ELSE IF ~IsBrace(Head(text)) THEN OnlyPlaceholderBraces(Tail(text))
    ELSE LET n == IdentifierLen(SubSeq(text, 3, Len(text))) IN
         /\ OccursAt(text, 1, <<"{", "{">>)
         /\ n > 0
         /\ OccursAt(text, 3 + n, <<"}", "}">>)
         /\ OnlyPlaceholderBraces(SubSeq(text, 5 + n, Len(text)))

(***************************************************************************)
(* C15 (refuted by the code).  For every template and every mapping,       *)
(* _replace_template_variables returns the template with each `{{key}}`    *)
(* occurrence of the original template replaced by the value of the key    *)
(* and every other character left as it is, placeholders of keys that are  *)
(* not in the mapping included; the result is the same for every order in  *)
(* which the keys are visited, also when a value holds `{{otherKey}}`.     *)
(***************************************************************************)
C15_RenderReplacesOriginalOccurrences ==
    RenderedOnce =>
        /\ rendering.result = Substituted(rendering.template, rendering.vars.items)
        /\ rendering.result =
             replace_template_variables(
                 rendering.template,
                 [rendering.vars EXCEPT !.items = Reverse(@)])

(***************************************************************************)
(* C16 as stated (refuted).  Rendering is idempotent: for every template   *)
(* and every mapping in which no value contains a placeholder `{{k}}` of a *)
(* key k of the mapping, rendering the rendered text again changes         *)
(* nothing.                                                                *)
(***************************************************************************)
NoValueHoldsPlaceholder(items) ==
    \A i, j \in 1..Len(items) : ~Occurs(items[i].value, Placeholder(items[j].key))

NoValueHasBrace(items) == \A i \in 1..Len(items) : ~HasBrace(items[i].value)

UserTemplateConfigured ==
    service.user.declared /\ Strip(service.user.text) /= <<>>

\* the user message the turn is to append: the text of the template file
\* with the configured variables put in, the text of the turn standing for
\* `user_input`
ExpectedUserText(text) ==
    IF UserTemplateConfigured
    THEN Substituted(Strip(service.user.text),
                     SetItem(service.user_template_vars.items, USER_INPUT, text))
    ELSE text

C17_UserMessageIsTemplateWithText ==
    last.op = "PromptService.stream_chat" =>
        /\ Len(History) > Len(last.pre)
        /\ History[Len(last.pre) + 1]
             = Message("user", Str(ExpectedUserText(last.text)))

(***************************************************************************)
(* C18 (refuted by the code).  When a service is constructed with a        *)
(* declared template path whose file does not exist, construction fails    *)
(* with a not-found error that reaches the constructing caller as a        *)
(* recoverable failure (the process is not terminated), no template text   *)
(* is returned, and the caller has no service, client or conversation      *)
(* history; for PromptService and for TranslationService.                  *)
(***************************************************************************)
\* a service was constructed over a declared path with no file at it, every
\* other declared path naming a file
ConstructedOverMissingFile ==
    /\ service.cls /= ""
    /\ \/ service.system.declared /\ service.system.at = "missing"
       \/ service.user.declared /\ service.user.at = "missing"
    /\ service.system.declared => service.system.at /= "unreadable"
    /\ service.user.declared => service.user.at /= "unreadable"

C18_MissingTemplateFailsRecoverably ==
    ConstructedOverMissingFile =>
        /\ service.outcome = "FileNotFoundError"
        /\ ~service.exists
        /\ service.user_template.none
        /\ History = <<>>
        /\ system_prompt = NONE

(***************************************************************************)
(* Vocabulary of the properties of the service factory.                    *)
(***************************************************************************)
\* a service of the factory was accessed
Accessed == factory.access.name /= ""

\* the credential is present in the environment e
Present(e, name) == e[name] \notin {ABSENT, ""}

\* the adapter the selection policy gives for the environment e: its class
\* and credential, and for the REST/SSE adapter its endpoint
Selected(e) ==
    IF Present(e, "ZHIPUAI_API_KEY")
    THEN [cls |-> "ZhipuAiChatClient", api_key |-> e["ZHIPUAI_API_KEY"],
          base_url |-> NONE]
    ELSE IF Present(e, "DEEPSEEK_API_KEY")
    THEN [cls |-> "OpenAIClient", api_key |-> e["DEEPSEEK_API_KEY"],
          base_url |-> DEEPSEEK_BASE_URL]
    ELSE [cls |-> "", api_key |-> NONE, base_url |-> NONE]

\* the adapter an access constructed, without the model name
AdapterOf(access) ==
    [cls |-> access.client.cls, api_key |-> access.client.api_key,
     base_url |-> access.client.base_url]

(***************************************************************************)
(* C19 (refuted by the code).  Adapter selection in the service factory    *)
(* follows a fixed priority: with the ZHIPUAI key present the native-SDK   *)
(* adapter is constructed with that key, whether or not the DEEPSEEK key   *)
(* is present; else with the DEEPSEEK key present the REST/SSE adapter is  *)
(* constructed against the DeepSeek endpoint with the DEEPSEEK key as its  *)
(* credential; else selection fails, and no service is constructed or      *)
(* cached.                                                                 *)
(***************************************************************************)
C19_AdapterSelectionPriority ==
    Accessed =>
        LET access == factory.access IN
        IF Selected(access.env).cls /= ""
        THEN AdapterOf(access) = Selected(access.env)
        ELSE /\ access.outcome /= "returned"
             /\ access.client = NoAdapter
             /\ access.value = NONE
             /\ factory.services = access.before

(***************************************************************************)
(* C20 (refuted by the code).  The adapter choice is made once from the    *)
(* environment at startup and is not made again during the session: for    *)
(* every sequence of accesses to services of the factory, with the         *)
(* credentials in the environment changing in between, every adapter an    *)
(* access constructs for a service is the one the environment at startup   *)
(* selects, in kind and credential.                                        *)
(***************************************************************************)
C20_AdapterChosenOnceAtStartup ==
    (Accessed /\ factory.access.client /= NoAdapter) =>
        AdapterOf(factory.access) = Selected(factory.startup)

(***************************************************************************)
(* Vocabulary of the list_models property.                                 *)
(***************************************************************************)
\* the last operation was list_models, and its request failed in transport
ListModelsFailed == last.op = "list_models" /\ last.status = "fail"

(***************************************************************************)
(* C21.  list_models never raises on a transport failure: for both         *)
(* adapters, when the request fails the call returns an empty sequence,    *)
(* and the conversation history and the system prompt of the client are    *)
(* the same after the call as before it.                                   *)
(***************************************************************************)
C21_ListModelsFailureIsEmptyList ==
    ListModelsFailed =>
        /\ last.outcome = "returned"
        /\ last.models = <<>>
        /\ History = last.pre
        /\ system_prompt = last.preSp

\* the REST/SSE client, holding a system prompt and a user message, asked
\* for the models while the backend is down
C21_Witness ==
    /\ ListModelsFailed
    /\ kind = "rest"
    /\ Len(History) = 2
    /\ History[1].role = "system"
    /\ Truthy(system_prompt)

(***************************************************************************)
(* Vocabulary of the cancellation property.                                *)
(***************************************************************************)
\* the last operation was a streaming turn the user interrupted after it
\* began and before its stream was exhausted: before there was a stream, in
\* a read of it, or in the loop body
Cancelled ==
    /\ last.op = "stream_chat"
    /\ last.outcome = "KeyboardInterrupt"
    /\ last.where \in {"start", "setup", "request", "read", "body"}

(***************************************************************************)
(* C22 (refuted by the code).  If a streaming turn is cancelled at any     *)
(* point after it began and before the stream is exhausted, the history    *)
(* afterwards is exactly the history as it was before the turn began, and  *)
(* in particular holds no partial assistant message.                       *)
(***************************************************************************)
C22_CancelledTurnRestoresHistory ==
    Cancelled => History = last.pre

(***************************************************************************)
(* Vocabulary of the request property.                                     *)
(***************************************************************************)
\* the last operation was a turn, streaming or not
Turn == last.op \in {"stream_chat", "normal_chat"}

(***************************************************************************)
(* C23.  On every turn (stream_chat and normal_chat) the user message is   *)
(* appended to the history before the adapter is invoked, the adapter is   *)
(* invoked exactly once, and the message list passed to it is the whole    *)
(* history at that moment: every message of the earlier turns (user        *)
(* messages of failed turns and any system message included) in order,     *)
(* ending with this turn's user message.                                   *)
(***************************************************************************)
C23_RequestCarriesWholeHistory ==
    Turn =>
        /\ Len(last.calls) = 1
        /\ last.calls[1].messages = Append(last.pre, UserMessage)
        /\ last.calls[1].stream = (last.op = "stream_chat")
        /\ Len(History) >= Len(last.pre) + 1
        /\ SubSeq(History, 1, Len(last.pre) + 1) = Append(last.pre, UserMessage)

\* a streaming turn on a history that holds a system message and the user
\* message of a turn that got no answer
C23_Witness ==
    /\ last.op = "stream_chat"
    /\ Len(last.pre) = 2
    /\ last.pre[1].role = "system"
    /\ last.pre[2].role = "user"
    /\ last.pre[2].content /= last.content
    /\ Len(last.calls) = 1

(***************************************************************************)
(* Vocabulary of the system-prompt property.                               *)
(***************************************************************************)
\* the history h starts with a system message whose content is the text
StartsWithSystem(h, text) == h /= <<>> /\ h[1] = Message("system", text)

\* the non-empty texts a system prompt or a first message may hold
PromptTexts ==
    {text \in {get_system_prompt(Self)}
                \cup {History[i].content : i \in 1..Len(History)} :
       Truthy(text)}

(***************************************************************************)
(* C24 (refuted by the code).  After any sequence of constructor,          *)
(* add_message, set_system_prompt and clear_history calls, the client's    *)
(* system-prompt field and its history agree: get_system_prompt() returns  *)
(* a non-empty text T if and only if the history's message at index 0 has  *)
(* role system and content T.                                              *)
(***************************************************************************)
C24_SystemPromptFieldAgreesWithHistory ==
    \A text \in PromptTexts :
        get_system_prompt(Self) = text <=> StartsWithSystem(History, text)

(***************************************************************************)
(* Vocabulary of the property of the history's shape.                      *)
(***************************************************************************)
\* the indexes of the messages of a role in the history h
IndexesOf(h, role) == {i \in 1..Len(h) : h[i].role = role}

(***************************************************************************)
(* C25.  After any sequence of streaming turns with any mix of outcomes    *)
(* (completed, zero-content, failed), interleaved with clear_history and   *)
(* set_system_prompt calls, every assistant message in the history is      *)
(* immediately preceded by a user message, no assistant message has empty  *)
(* content, and the number of assistant messages never exceeds the number  *)
(* of user messages.                                                       *)
(***************************************************************************)
C25_AssistantFollowsUser ==
    /\ \A i \in IndexesOf(History, "assistant") :
         /\ i > 1
         /\ History[i - 1].role = "user"
         /\ History[i].content /= ""
    /\ Cardinality(IndexesOf(History, "assistant"))
         <= Cardinality(IndexesOf(History, "user"))

\* the system prompt set for the first time after a completed turn: the
\* system message was inserted in front of the turn's two messages
C25_Witness ==
    /\ last.op = "set_system_prompt"
    /\ Len(History) = 3
    /\ History[1].role = "system"
    /\ History[3].role = "assistant"
    /\ last.pre = Tail(History)

(***************************************************************************)
(* Vocabulary of the property of the turns of a PromptService.             *)
(***************************************************************************)
\* the last operation was a turn of the PromptService
PromptTurn == last.op = "PromptService.stream_chat"

(***************************************************************************)
(* C26.  PromptService.stream_chat leaves the configured user-template     *)
(* variables and the loaded user template unchanged, so across any         *)
(* sequence of turns the user message rendered for a turn depends only on  *)
(* the template, the configured variables and that turn's text, never on   *)
(* the text of an earlier turn.                                            *)
(***************************************************************************)
C26_TurnLeavesTemplateAndVariables ==
    PromptTurn =>
        /\ service.user_template_vars = service.configured.user_template_vars
        /\ service.user_template = service.configured.user_template
        /\ last.content =
             Str(processed_text(service.configured.user_template,
                                service.configured.user_template_vars,
                                last.text))
        /\ History[Len(last.pre) + 1] = UserMessage

\* a second turn, with another text than the first, of a service with a
\* user template and variables of its own
C26_Witness ==
    /\ PromptTurn
    /\ Len(last.pre) = 1
    /\ last.pre[1].role = "user"
    /\ last.pre[1].content /= last.content
    /\ ~service.user_template.none
    /\ service.user_template.text /= <<>>
    /\ service.user_template_vars.items /= <<>>

=============================================================================
